---- MODULE Spec2Model ----
(***************************************************************************)
(* A model of project_report_after_adding_varsvetadata.py: the month       *)
(* helpers, the actual-hours lookup builder, the allocation reconciler     *)
(* (process_allocation_csv) and the session-state flow of main.            *)
(*                                                                         *)
(* Conventions.                                                            *)
(*  - A month name is a Python str, modelled as a sequence of one-letter   *)
(*    strings, so that str.lower() and the substring test `a in b` are     *)
(*    computed and not assumed.                                            *)
(*  - Hours are floats with at most two decimals in every case modelled;   *)
(*    they are carried as integers in hundredths of an hour (1000 is       *)
(*    10.00 h).  'Completion %' is carried in hundredths of a percent      *)
(*    (7500 is 75.0).                                                      *)
(*  - Employee names, column labels and project names are only compared    *)
(*    and sorted, so they are TLA+ strings.                                *)
(***************************************************************************)
EXTENDS Integers, Sequences, FiniteSets, TLC

VARIABLES
    \* ---- month helpers (get_month_number / period string) ----
    mpc,          \* position in the month pipeline
    month_name,   \* the str passed to get_month_number
    year,         \* the year passed to fetch_all_actual_hours
    standard_month, \* standardize_month_name(month_name)
    month_number, \* get_month_number(month_name)
    month_str,    \* the period string of fetch_all_actual_hours
    \* ---- process_allocation_csv ----
    rpc,          \* "input" before the call, "returned" or "raised" after it
    df,           \* the table passed in
    sel,          \* [month, year] passed in
    users_reply,  \* what bq.get_users did, "uncalled" if it was not called
    tickets_reply,\* what bq.jira_tickets did, "uncalled" if it was not called
    result,       \* process_allocation_csv's outcome
    \* ---- main ----
    session_state,\* st.session_state: a function from the keys present
    last_run      \* what the last script run of main showed

mvars == <<mpc, month_name, year, standard_month, month_number, month_str>>
rvars == <<rpc, df, sel, users_reply, tickets_reply, result>>
svars == <<session_state, last_run>>
vars == <<mvars, rvars, svars>>

(***************************************************************************)
(* Python str helpers                                                      *)
(***************************************************************************)
UpperChars == <<"A","B","C","D","E","F","G","H","I","J","K","L","M",
                "N","O","P","Q","R","S","T","U","V","W","X","Y","Z">>
LowerChars == <<"a","b","c","d","e","f","g","h","i","j","k","l","m",
                "n","o","p","q","r","s","t","u","v","w","x","y","z">>

\* str.lower() on one character
LowerChar(c) ==
    IF \E i \in 1..Len(UpperChars) : UpperChars[i] = c
    THEN LowerChars[CHOOSE i \in 1..Len(UpperChars) : UpperChars[i] = c]
    ELSE c

\* str.lower()
Lower(s) == [i \in 1..Len(s) |-> LowerChar(s[i])]

\* the Python test `a in b` on two str: a is a contiguous substring of b
\* (the empty str is in every str)
StrIn(a, b) ==
    \E k \in 0..(Len(b) - Len(a)) :
        \A i \in 1..Len(a) : b[k + i] = a[i]

\* list.index(x): the first position of x in a 0-based list, -1 for ValueError
ListIndex(list, x) ==
    IF \E i \in 1..Len(list) : list[i] = x
    THEN (CHOOSE i \in 1..Len(list) :
            list[i] = x /\ \A j \in 1..(i - 1) : list[j] # x) - 1
    ELSE -1

(***************************************************************************)
(* The calendar module and MONTH_MAPPING                                   *)
(***************************************************************************)
\* calendar.month_name[1..12]
FullMonths == <<
    <<"J","a","n","u","a","r","y">>,
    <<"F","e","b","r","u","a","r","y">>,
    <<"M","a","r","c","h">>,
    <<"A","p","r","i","l">>,
    <<"M","a","y">>,
    <<"J","u","n","e">>,
    <<"J","u","l","y">>,
    <<"A","u","g","u","s","t">>,
    <<"S","e","p","t","e","m","b","e","r">>,
    <<"O","c","t","o","b","e","r">>,
    <<"N","o","v","e","m","b","e","r">>,
    <<"D","e","c","e","m","b","e","r">> >>

\* list(calendar.month_name): 13 entries, entry 0 is the empty str
calendar_month_name == <<  <<>>  >> \o FullMonths

\* calendar.month_abbr as a list: 13 entries, entry 0 is the empty str
calendar_month_abbr == <<  <<>>  >> \o [i \in 1..Len(FullMonths) |-> SubSeq(FullMonths[i], 1, 3)]

\* MONTH_MAPPING: its keys, in order, and the value of each key
MONTH_MAPPING_keys == [i \in 1..Len(FullMonths) |-> SubSeq(FullMonths[i], 1, 3)]
MONTH_MAPPING_get(k) == FullMonths[ListIndex(MONTH_MAPPING_keys, k) + 1]

\* variant: a miss that is no full month name defaults to "January"
standardize_month_name_DefaultJanuary(m) ==
    IF ListIndex(MONTH_MAPPING_keys, m) >= 0
    THEN MONTH_MAPPING_get(m)
    ELSE IF ListIndex(FullMonths, m) >= 0 THEN m ELSE FullMonths[1]

\* standardize_month_name
standardize_month_name(m) ==
    IF ListIndex(MONTH_MAPPING_keys, m) >= 0
    THEN MONTH_MAPPING_get(m)
    ELSE m

\* the fallback loop of get_month_number: the first i > 0 whose full name
\* contains the input or is contained in it, case-insensitively; 1 if none
FlexibleMatches(sm) ==
    {i \in 1..12 : StrIn(Lower(sm), Lower(calendar_month_name[i + 1]))
                   \/ StrIn(Lower(calendar_month_name[i + 1]), Lower(sm))}

Min(S) == CHOOSE x \in S : \A y \in S : x <= y

\* get_month_number
get_month_number(m) ==
    LET sm == standardize_month_name(m)
        idx == ListIndex(calendar_month_name, sm)
    IN  IF idx >= 0 THEN idx
        ELSE IF FlexibleMatches(sm) # {} THEN Min(FlexibleMatches(sm))
        ELSE 1

\* the period string of fetch_all_actual_hours: f"{month_abbr} {year}"
PeriodStr(m, y) == [abbr |-> calendar_month_abbr[get_month_number(m) + 1], year |-> y]

(***************************************************************************)
(* Module-level tables of the program                                      *)
(***************************************************************************)
\* PROJECT_NAME_MAPPING.  A value that is a single str in the source is a
\* one-element list here; 'Vars/Vita.' is the two-element list of the
\* source.  'Super Eng.' is written twice in the dict literal: Python keeps
\* the last value, 'Alpha'.
PROJECT_NAME_MAPPING ==
    [ SDI |-> <<"SDI">> ] @@
    ( "Vars/Vita."          :> <<"VARS", "Vitawerks">> @@
      "Kinergy"             :> <<"Kinergy">> @@
      "Nabis - Retainer"    :> <<"Nabis">> @@
      "Nabis - 3C"          :> <<"Nabis:Data Warehouse">> @@
      "STT - Daily Shuttle" :> <<"STT">> @@
      "Lithium"             :> <<"Lithium">> @@
      "Phoenix"             :> <<"Phoenix">> @@
      "ForceMultipler"      :> <<"ForceMultiplier">> @@
      "QualApps"            :> <<"QualApps">> @@
      "Alma"                :> <<"Alma">> @@
      "Super Eng."          :> <<"Alpha">> @@
      "Digital Twin"        :> <<"Digital Twin">> @@
      "Project Alc."        :> <<"Project Allocation">> @@
      "VISO Training"       :> <<"Project Viso">> @@
      "Rhythm"              :> <<"Rhythmm">> @@
      "Text Vegas"          :> <<"Text Vegas">> )

IGNORED_COLUMNS == <<"Dept", "Level", "Internal Alc.", "Avail. Bandwidth", "Project Alc.">>

\* time_spent is in seconds: astype(float) / 3600.0
SecondsPerHour == 3600

\* round(..., 2) and .round(2): two decimals are kept
RoundDigits == 2

\* (actual_hours / expected_hours) * 100
PercentFactor == 100

\* min(..., 100)
CompletionCap == 100

\* the unit of every hours and percent value carried here: 10^-RoundDigits
Units == 10 ^ RoundDigits

(***************************************************************************)
(* Arithmetic                                                              *)
(***************************************************************************)
\* variant: the decimals beyond the second are cut off, not rounded
RoundDiv_Truncate(n, d) == n \div d

\* n / d rounded to the nearest integer, ties to even (round(x, 2) on a
\* value carried in hundredths), for n >= 0 and d > 0
RoundDiv(n, d) ==
    LET q == n \div d
        r == n % d
    IN  IF 2 * r < d THEN q
        ELSE IF 2 * r > d THEN q + 1
        ELSE IF q % 2 = 0 THEN q ELSE q + 1

Min2(a, b) == IF a <= b THEN a ELSE b

RECURSIVE SumSeq(_)
SumSeq(s) == IF s = <<>> THEN 0 ELSE Head(s) + SumSeq(Tail(s))

RECURSIVE SelectWhere(_, _)
\* the subsequence of s whose elements are in the set keep
SelectWhere(s, keep) ==
    IF s = <<>> THEN <<>>
    ELSE IF Head(s) \in keep THEN <<Head(s)>> \o SelectWhere(Tail(s), keep)
    ELSE SelectWhere(Tail(s), keep)

Range(s) == {s[i] : i \in 1..Len(s)}

(***************************************************************************)
(* The external providers (helper.bq) as the program sees them             *)
(***************************************************************************)
\* what bq.get_users() can do: return a frame with a "name" column, return
\* an empty frame, return a non-empty frame without "name", or raise
UsersReplies == {"ok", "empty", "no_name", "raise"}

DirectoryNames == {"Alice", "Bob", "Carol"}

\* what bq.jira_tickets() can do: return the period's rows, return an empty
\* frame, return rows without "time_spent", return rows with "time_spent"
\* but without "teric_name", or raise
TicketsReplies == {"rows", "empty", "no_time_spent", "no_teric_name", "raise"}

Ticket(n, p, t) == [teric_name |-> n, teric_project_name |-> p, time_spent |-> t]

\* the rows the warehouse holds for a period string (time_spent in seconds)
Warehouse(period) ==
    IF period = [abbr |-> <<"M","a","r">>, year |-> "2025"] THEN
        << Ticket("Alice", "SDI", 54000),
           Ticket("Bob", "VARS", 14400),
           Ticket("Bob", "Vitawerks", 10800),
           Ticket("Alice", "Nabis", 18000),
           Ticket("Alice", "Nabis", 18100),
           Ticket("Bob", "Custom", 90000),
           Ticket("Alice", "Alpha", 3600),
           Ticket("Alice", "VARS", 7200) >>
    ELSE IF period = [abbr |-> <<"A","p","r">>, year |-> "2025"] THEN
        << Ticket("Alice", "SDI", 7200),
           Ticket("Bob", "SDI", 36000),
           Ticket("Alice", "Vitawerks", 100),
           Ticket("Bob", "Nabis", 1234),
           Ticket("Bob", "Alpha", 72000) >>
    ELSE IF period = [abbr |-> <<"J","a","n">>, year |-> "2025"] THEN
        << Ticket("Alice", "SDI", 3600) >>
    ELSE << >>

(***************************************************************************)
(* fetch_valid_users and fetch_all_actual_hours                            *)
(* (st.cache_data only saves a repeated call: every call is modelled as    *)
(* reaching the provider)                                                  *)
(***************************************************************************)
\* fetch_valid_users: nothing in it catches an exception
fetch_valid_users(reply) ==
    CASE reply = "raise"   -> [raised |-> TRUE, error |-> "ProviderError", value |-> {}]
      [] reply = "no_name" -> [raised |-> TRUE, error |-> "KeyError", value |-> {}]
      [] reply = "empty"   -> [raised |-> FALSE, error |-> "none", value |-> {}]
      [] OTHER             -> [raised |-> FALSE, error |-> "none", value |-> DirectoryNames]

EmptyLookup == [k \in {} |-> 0]

\* groupby([teric_name, teric_project_name])["actual_hours"].sum().round(2),
\* zipped into a dict
GroupedLookup(rows) ==
    LET keys == {<<rows[i].teric_name, rows[i].teric_project_name>> : i \in 1..Len(rows)}
        seconds(k) == SumSeq([i \in 1..Len(rows) |->
                        IF <<rows[i].teric_name, rows[i].teric_project_name>> = k
                        THEN rows[i].time_spent ELSE 0])
    IN  [k \in keys |-> RoundDiv(seconds(k) * Units, SecondsPerHour)]

\* variant: the except branch returns {} without st.warning
fetch_all_actual_hours_SilentExcept(month, yr, reply) ==
    LET report_df == IF reply = "empty" THEN << >> ELSE Warehouse(PeriodStr(month, yr))
    IN  IF reply \in {"rows", "empty"} /\ report_df # << >>
        THEN [lookup |-> GroupedLookup(report_df), warning |-> FALSE]
        ELSE [lookup |-> EmptyLookup, warning |-> FALSE]

\* fetch_all_actual_hours: [lookup, warning]; warning is st.warning having
\* been called
fetch_all_actual_hours(month, yr, reply) ==
    LET report_df == IF reply = "empty" THEN << >> ELSE Warehouse(PeriodStr(month, yr))
    IN  CASE reply = "raise" -> [lookup |-> EmptyLookup, warning |-> TRUE]
          [] reply = "no_time_spent" -> [lookup |-> EmptyLookup, warning |-> FALSE]
          [] reply = "no_teric_name" ->
                IF report_df = << >>
                THEN [lookup |-> EmptyLookup, warning |-> FALSE]
                ELSE [lookup |-> EmptyLookup, warning |-> TRUE]
          [] OTHER ->
                IF report_df = << >>
                THEN [lookup |-> EmptyLookup, warning |-> FALSE]
                ELSE [lookup |-> GroupedLookup(report_df), warning |-> FALSE]

\* dict.get(key, 0)
lookup_get(lookup, key) == IF key \in DOMAIN lookup THEN lookup[key] ELSE 0

(***************************************************************************)
(* process_allocation_csv                                                  *)
(*                                                                         *)
(* A table is [columns, rows]: columns is the header without 'Name', in    *)
(* order; a row is [Name, cells], cells a function from the column labels. *)
(* A cell is [k, v]: k = "num" a number v (hundredths of an hour),         *)
(* k = "nan" a missing value, k = "str" a text that is no number.          *)
(***************************************************************************)
Num(v) == [k |-> "num", v |-> v]
NaN == [k |-> "nan", v |-> 0]
Text == [k |-> "str", v |-> 0]

\* for col in IGNORED_COLUMNS: if col in df.columns: df = df.drop(columns=[col])
DropIgnored(t) ==
    LET kept == {c \in Range(t.columns) : c \notin Range(IGNORED_COLUMNS)}
    IN  [columns |-> SelectWhere(t.columns, kept),
         rows |-> [i \in 1..Len(t.rows) |->
                    [Name |-> t.rows[i].Name,
                     cells |-> [c \in kept |-> t.rows[i].cells[c]]]]]

\* df[col].astype(float) raises ValueError on a column holding a text
AstypeRaises(t) ==
    \E c \in Range(t.columns) : \E i \in 1..Len(t.rows) : t.rows[i].cells[c].k = "str"

\* pd.notna(row[project_col]) and row[project_col] > 0
\* variant: pd.notna(row[project_col]) alone
HasHours_NoSignTest(cell) == cell.k = "num"

HasHours(cell) == cell.k = "num" /\ cell.v > 0

\* variant: 'Vars/Vita.' is mapped like any other label, to the first name
\* of its list
StandardizedProject_NoSpecialCase(col) ==
    IF col \in DOMAIN PROJECT_NAME_MAPPING THEN PROJECT_NAME_MAPPING[col][1] ELSE col

\* the Project of the record of a cell under column col
StandardizedProject(col) ==
    IF col \in DOMAIN PROJECT_NAME_MAPPING
    THEN IF col = "Vars/Vita." THEN "VARS/Vitawerks"
         ELSE PROJECT_NAME_MAPPING[col][1]
    ELSE col

\* variant: one lookup for every column, the combined one included
ActualHours_FirstMemberOnly(name, col, lookup) ==
    lookup_get(lookup, <<name, StandardizedProject_NoSpecialCase(col)>>)

\* the Actual Hours of the record of employee name under column col
ActualHours(name, col, lookup) ==
    IF col \in DOMAIN PROJECT_NAME_MAPPING /\ col = "Vars/Vita."
    THEN SumSeq([i \in 1..Len(PROJECT_NAME_MAPPING["Vars/Vita."]) |->
                    lookup_get(lookup, <<name, PROJECT_NAME_MAPPING["Vars/Vita."][i]>>)])
    ELSE lookup_get(lookup, <<name, StandardizedProject(col)>>)

\* variant: round(...) without min(..., 100)
CompletionPercentage_Uncapped(actual, expected) ==
    IF expected > 0
    THEN RoundDiv(actual * PercentFactor * Units, expected)
    ELSE 0

\* completion_percentage
CompletionPercentage(actual, expected) ==
    IF expected > 0
    THEN Min2(RoundDiv(actual * PercentFactor * Units, expected), CompletionCap * Units)
    ELSE 0

\* the dict appended to processed_data for one cell
RecordOf(row, col, lookup) ==
    LET expected == row.cells[col].v
        actual == ActualHours(row.Name, col, lookup)
    IN  [Name |-> row.Name,
         Project |-> StandardizedProject(col),
         Expected |-> expected,
         Actual |-> actual,
         Completion |-> CompletionPercentage(actual, expected)]

RECURSIVE RowRecords(_, _, _)
\* for project_col in project_columns: ...
RowRecords(row, cols, lookup) ==
    IF cols = << >> THEN << >>
    ELSE (IF HasHours(row.cells[Head(cols)])
          THEN << RecordOf(row, Head(cols), lookup) >> ELSE << >>)
         \o RowRecords(row, Tail(cols), lookup)

RECURSIVE ProcessedData(_, _, _)
\* for _, row in df.iterrows(): ...
ProcessedData(rows, cols, lookup) ==
    IF rows = << >> THEN << >>
    ELSE RowRecords(Head(rows), cols, lookup) \o ProcessedData(Tail(rows), cols, lookup)

\* every str that can be a Name or a Project here, in Python's str order
StrOrder == << "Alice", "Alma", "Alpha", "Bob", "Custom", "Digital Twin",
               "ForceMultiplier", "Kinergy", "Lithium", "Nabis",
               "Nabis:Data Warehouse", "Phoenix", "Project Allocation",
               "Project Viso", "QualApps", "Rhythmm", "SDI", "STT",
               "Text Vegas", "VARS", "VARS/Vitawerks", "Vitawerks" >>

\* (a.Name, a.Project) <= (b.Name, b.Project)
KeyLeq(a, b) ==
    LET an == ListIndex(StrOrder, a.Name)
        bn == ListIndex(StrOrder, b.Name)
    IN  an < bn \/ (an = bn /\ ListIndex(StrOrder, a.Project) <= ListIndex(StrOrder, b.Project))

RECURSIVE InsertSorted(_, _)
\* r put after every element whose key is not larger (a stable sort)
InsertSorted(sorted, r) ==
    IF sorted = << >> THEN << r >>
    ELSE IF KeyLeq(Head(sorted), r) THEN << Head(sorted) >> \o InsertSorted(Tail(sorted), r)
    ELSE << r >> \o sorted

RECURSIVE SortValues(_)
\* result_df.sort_values(['Name', 'Project'])
SortValues(records) ==
    IF records = << >> THEN << >>
    ELSE InsertSorted(SortValues(SubSeq(records, 1, Len(records) - 1)), records[Len(records)])

Raised(err, users_called) ==
    [outcome |-> "raised", error |-> err, records |-> << >>, warning |-> FALSE,
     lookup |-> EmptyLookup, users_called |-> users_called, tickets_called |-> FALSE]

\* process_allocation_csv(df, selected_month, selected_year), given what the
\* two providers do when called: [outcome, error, records, warning, lookup,
\* users_called, tickets_called], where records is result_df, lookup is
\* actual_hours_lookup and warning is st.warning having been called
process_allocation_csv(t, month, yr, ureply, treply) ==
    LET d == DropIgnored(t)
    IN  IF AstypeRaises(d) THEN Raised("ValueError", FALSE)
        ELSE LET u == fetch_valid_users(ureply)
             IN  IF u.raised THEN Raised(u.error, TRUE)
                 ELSE LET f == fetch_all_actual_hours(month, yr, treply)
                      IN  [outcome |-> "returned", error |-> "none",
                           records |-> SortValues(ProcessedData(d.rows, d.columns, f.lookup)),
                           warning |-> f.warning, lookup |-> f.lookup,
                           users_called |-> TRUE, tickets_called |-> TRUE]

(***************************************************************************)
(* Inputs                                                                  *)
(***************************************************************************)
\* the longest table, in rows
MaxRows == 2

\* month strings given to the month helpers: the 12 abbreviations, the 12
\* full names, and strings that are neither
OtherMonthInputs ==
    { << >>,
      <<"X","y","z">>,
      <<"j","a","n","u","a","r","y">>,
      <<"M","A","R","C","H">>,
      <<"S","e","p","t">>,
      <<"a","r">>,
      <<"m","a">>,
      <<"M","a","r","c","h","e","s">>,
      <<"D","e","c",".">>,
      <<"1","2">> }

MonthInputs == Range(MONTH_MAPPING_keys) \cup Range(FullMonths) \cup OtherMonthInputs

Years == {"2024", "2025"}

Employees == {"Alice", "Bob"}

\* the cells of a row of an uploaded table, first column then second:
\* positive hours, a missing value, zero, negative hours and, in the first
\* column, a text
CellPatterns ==
    { <<Num(1000), Num(2000)>>,
      <<Num(2000), Num(1000)>>,
      <<NaN,       Num(1000)>>,
      <<Num(1500), Num(0)>>,
      <<Num(-500), Num(2000)>>,
      <<Text,      Num(1000)>> }

\* the headers of the uploaded tables, without 'Name'
Headers ==
    { <<"SDI", "Vars/Vita.">>,
      <<"Nabis - Retainer", "Nabis">>,
      <<"Project Alc.", "Super Eng.">>,
      <<"Vars/Vita.", "VARS">> }

RowsOf(h) ==
    {[Name |-> n, cells |-> [c \in Range(h) |-> IF c = h[1] THEN p[1] ELSE p[2]]]
        : n \in Employees, p \in CellPatterns}

Tables ==
    UNION {{[columns |-> h, rows |-> r] : r \in UNION {[1..n -> RowsOf(h)] : n \in 0..MaxRows}}
           : h \in Headers}

\* the (selected_month, selected_year) pairs given to process_allocation_csv
Selections ==
    {[month |-> m, year |-> "2025"] : m \in {<<"M","a","r","c","h">>, <<"A","p","r">>}}

NoResult == [outcome |-> "none", error |-> "none", records |-> << >>, warning |-> FALSE,
             lookup |-> EmptyLookup, users_called |-> FALSE, tickets_called |-> FALSE]

NoTable == [columns |-> << >>, rows |-> << >>]

MonthIdle ==
    /\ mpc = "idle" /\ month_name = << >> /\ year = "" /\ standard_month = << >>
    /\ month_number = 0 /\ month_str = [abbr |-> << >>, year |-> ""]

ReconIdle ==
    /\ rpc = "idle" /\ df = NoTable /\ sel = [month |-> << >>, year |-> ""]
    /\ users_reply = "uncalled" /\ tickets_reply = "uncalled" /\ result = NoResult

MainIdle ==
    /\ session_state = [k \in {} |-> 0] /\ last_run = [view |-> "idle", warning |-> FALSE]

(***************************************************************************)
(* The call of process_allocation_csv on an input table                    *)
(***************************************************************************)
InitRecon ==
    /\ MonthIdle /\ MainIdle
    /\ rpc = "input"
    /\ df \in Tables
    /\ sel \in Selections
    /\ users_reply = "uncalled" /\ tickets_reply = "uncalled"
    /\ result = NoResult

Process ==
    /\ rpc = "input"
    /\ \E ureply \in UsersReplies, treply \in TicketsReplies :
         LET res == process_allocation_csv(df, sel.month, sel.year, ureply, treply)
         IN  /\ result' = res
             /\ rpc' = res.outcome
             /\ users_reply' = IF res.users_called THEN ureply ELSE "uncalled"
             /\ tickets_reply' = IF res.tickets_called THEN treply ELSE "uncalled"
    /\ UNCHANGED <<df, sel, mvars, svars>>

NextRecon == Process

SpecRecon == InitRecon /\ [][NextRecon]_vars

(***************************************************************************)
(* The month helpers on an input string, as fetch_all_actual_hours uses    *)
(* them to build the period string                                         *)
(***************************************************************************)
InitMonth ==
    /\ ReconIdle /\ MainIdle
    /\ mpc = "input"
    /\ month_name \in MonthInputs
    /\ year \in Years
    /\ standard_month = << >>
    /\ month_number = 0
    /\ month_str = [abbr |-> << >>, year |-> ""]

\* standard_month = standardize_month_name(month_name)
Standardize ==
    /\ mpc = "input"
    /\ standard_month' = standardize_month_name(month_name)
    /\ mpc' = "standardized"
    /\ UNCHANGED <<month_name, year, month_number, month_str, rvars, svars>>

\* get_month_number(month_name)
GetMonthNumber ==
    /\ mpc = "standardized"
    /\ month_number' = get_month_number(month_name)
    /\ mpc' = "numbered"
    /\ UNCHANGED <<month_name, year, standard_month, month_str, rvars, svars>>

\* month_abbr = calendar.month_abbr[...]; month_str = f"{month_abbr} {year}"
FormatPeriod ==
    /\ mpc = "numbered"
    /\ month_str' = PeriodStr(month_name, year)
    /\ mpc' = "formatted"
    /\ UNCHANGED <<month_name, year, standard_month, month_number, rvars, svars>>

NextMonth == Standardize \/ GetMonthNumber \/ FormatPeriod

SpecMonth == InitMonth /\ [][NextMonth]_vars

(***************************************************************************)
(* main: one action per script run.  st.session_state is a function from   *)
(* the keys present to their values.                                       *)
(***************************************************************************)
SessionKeys == {"allocation_df", "raw_df", "selected_month", "selected_year"}

EmptySession == [k \in {} |-> 0]

Row(n, h, p) == [Name |-> n, cells |-> [c \in Range(h) |-> IF c = h[1] THEN p[1] ELSE p[2]]]

\* the files a user uploads: pd.read_csv either raises or yields a table
UploadedFiles ==
    { [readable |-> FALSE, table |-> NoTable],
      [readable |-> TRUE,
       table |-> [columns |-> <<"SDI", "Vars/Vita.">>,
                  rows |-> << Row("Alice", <<"SDI", "Vars/Vita.">>, <<Num(2000), Num(1000)>>),
                              Row("Bob", <<"SDI", "Vars/Vita.">>, <<Num(1500), Num(1000)>>) >>]],
      [readable |-> TRUE,
       table |-> [columns |-> <<"Nabis - Retainer", "Nabis">>,
                  rows |-> << Row("Alice", <<"Nabis - Retainer", "Nabis">>, <<NaN, Num(1000)>>) >>]],
      [readable |-> TRUE,
       table |-> [columns |-> <<"Dept", "Super Eng.">>,
                  rows |-> << Row("Bob", <<"Dept", "Super Eng.">>, <<Text, Num(2000)>>) >>]],
      [readable |-> TRUE,
       table |-> [columns |-> <<"Custom", "Project Alc.">>,
                  rows |-> << Row("Bob", <<"Custom", "Project Alc.">>, <<Text, Num(1000)>>) >>]],
      [readable |-> TRUE,
       table |-> [columns |-> <<"SDI", "Vars/Vita.">>,
                  rows |-> << Row("Alice", <<"SDI", "Vars/Vita.">>, <<Num(0), NaN>>) >>]],
      [readable |-> TRUE,
       table |-> [columns |-> <<"Vars/Vita.", "VARS">>,
                  rows |-> << Row("Bob", <<"Vars/Vita.", "VARS">>, <<Num(1000), Num(2000)>>),
                              Row("Bob", <<"Vars/Vita.", "VARS">>, <<Num(-500), Num(1500)>>) >>]],
      [readable |-> TRUE, table |-> NoTable] }

\* the values of the two selectboxes
WidgetSelections ==
    {[month |-> m, year |-> y] :
        m \in {<<"M","a","r","c","h">>, <<"A","p","r","i","l">>, <<"J","a","n","u","a","r","y">>},
        y \in Years}

\* what a run leaves on the page, and whether st.warning of
\* fetch_all_actual_hours was shown in it
View(v, w) == [view |-> v, warning |-> w]

ReportView(alloc, w) == View(IF alloc = << >> THEN "no_allocations" ELSE "report", w)

\* the four assignments after process_allocation_csv
\* returned; nothing is assigned when it raised
StoreUpload(res, table, s) ==
    IF res.outcome = "returned"
    THEN ("allocation_df" :> res.records) @@ ("raw_df" :> table) @@
         ("selected_month" :> s.month) @@ ("selected_year" :> s.year)
    ELSE EmptySession

\* variant: the period is stored, allocation_df is not replaced
StorePeriodChange_KeepTable(old, res, s) ==
    IF res.outcome = "returned"
    THEN ("selected_month" :> s.month) @@ ("selected_year" :> s.year) @@ old
    ELSE old

\* the three assignments after process_allocation_csv
\* returned; nothing is assigned when it raised
StorePeriodChange(old, res, s) ==
    IF res.outcome = "returned"
    THEN ("allocation_df" :> res.records) @@
         ("selected_month" :> s.month) @@ ("selected_year" :> s.year) @@ old
    ELSE old

\* for key in [...]: if key in st.session_state: del ...
ClearSession(old) == [k \in DOMAIN old \ SessionKeys |-> old[k]]

InitMain ==
    /\ MonthIdle /\ ReconIdle
    /\ session_state = EmptySession
    /\ last_run = View("idle", FALSE)

\* a run in which bq.get_latest_months raises inside get_months_and_years:
\* the exception leaves main before any widget is drawn
MonthsListRaises ==
    /\ last_run' = View("exception", FALSE)
    /\ UNCHANGED <<session_state, mvars, rvars>>

\* a run with no stored report and no file in the uploader
UploaderRun ==
    /\ "allocation_df" \notin DOMAIN session_state
    /\ last_run' = View("uploader", FALSE)
    /\ UNCHANGED <<session_state, mvars, rvars>>

\* a run with no stored report and a file in the uploader,
\* followed when it stored a report by the run st.rerun() starts
UploadRun ==
    /\ "allocation_df" \notin DOMAIN session_state
    /\ \E file \in UploadedFiles, s \in WidgetSelections,
          ureply \in UsersReplies, treply \in TicketsReplies :
         IF ~file.readable
         THEN /\ last_run' = View("error", FALSE)
              /\ UNCHANGED session_state
         ELSE LET res == process_allocation_csv(file.table, s.month, s.year, ureply, treply)
              IN  /\ session_state' = StoreUpload(res, file.table, s) @@ session_state
                  /\ last_run' = IF res.outcome = "returned"
                                 THEN ReportView(res.records, res.warning)
                                 ELSE View("error", FALSE)
    /\ UNCHANGED <<mvars, rvars>>

\* a run with a stored report and the button not pressed
ReportRun ==
    /\ "allocation_df" \in DOMAIN session_state
    /\ \E s \in WidgetSelections, ureply \in UsersReplies, treply \in TicketsReplies :
         IF s.month # session_state["selected_month"] \/ s.year # session_state["selected_year"]
         THEN LET res == process_allocation_csv(session_state["raw_df"], s.month, s.year,
                                                ureply, treply)
              IN  /\ session_state' = StorePeriodChange(session_state, res, s)
                  /\ last_run' = IF res.outcome = "returned"
                                 THEN ReportView(res.records, res.warning)
                                 ELSE View("exception", FALSE)
         ELSE /\ last_run' = ReportView(session_state["allocation_df"], FALSE)
              /\ UNCHANGED session_state
    /\ UNCHANGED <<mvars, rvars>>

\* a run with a stored report and "Upload a different allocation file"
\* pressed, followed by the run st.rerun() starts
ResetRun ==
    /\ "allocation_df" \in DOMAIN session_state
    /\ \E s \in WidgetSelections, ureply \in UsersReplies, treply \in TicketsReplies :
         IF s.month # session_state["selected_month"] \/ s.year # session_state["selected_year"]
         THEN LET res == process_allocation_csv(session_state["raw_df"], s.month, s.year,
                                                ureply, treply)
              IN  IF res.outcome = "returned"
                  THEN /\ session_state' = ClearSession(StorePeriodChange(session_state, res, s))
                       /\ last_run' = View("uploader", res.warning)
                  ELSE /\ last_run' = View("exception", FALSE)
                       /\ UNCHANGED session_state
         ELSE /\ session_state' = ClearSession(session_state)
              /\ last_run' = View("uploader", FALSE)
    /\ UNCHANGED <<mvars, rvars>>

NextMain == MonthsListRaises \/ UploaderRun \/ UploadRun \/ ReportRun \/ ResetRun

SpecMain == InitMain /\ [][NextMain]_vars

(***************************************************************************)
(* Properties of process_allocation_csv (under SpecRecon)                  *)
(***************************************************************************)
\* the table after the ignored columns are dropped
Kept == DropIgnored(df)

\* the cells of the table that hold positive hours, as <<row, column>>
PositiveCells ==
    {rc \in (1..Len(Kept.rows)) \X Range(Kept.columns) :
        Kept.rows[rc[1]].cells[rc[2]].k = "num" /\ Kept.rows[rc[1]].cells[rc[2]].v > 0}

\* the lookup the call obtained from fetch_all_actual_hours
\* (actual_hours_lookup)
LookupUsed == result.lookup

Records == result.records

\* the canonical project name of a column label, read off the mapping table
CanonicalOf(col) ==
    IF col = "Vars/Vita." THEN "VARS/Vitawerks"
    ELSE IF col \in DOMAIN PROJECT_NAME_MAPPING THEN PROJECT_NAME_MAPPING[col][1]
    ELSE col

\* C1: every emitted record has 'Completion %' in the closed range [0, 100]
\* (every lookup of the model holds non-negative hours).
C1_CompletionInRange ==
    \A i \in 1..Len(Records) :
        /\ Records[i].Completion >= 0
        /\ Records[i].Completion <= 100 * Units

\* a call returned a record whose actual hours exceed the expected hours and
\* one whose completion is strictly between 0 and 100
C1_Witness ==
    /\ rpc = "returned"
    /\ \E i \in 1..Len(Records) : Records[i].Actual > Records[i].Expected
    /\ \E i \in 1..Len(Records) : Records[i].Completion > 0 /\ Records[i].Completion < 100 * Units

\* C2: for every employee with hours > 0 under 'Vars/Vita.', there is exactly
\* one record per such cell; its Project is 'VARS/Vitawerks' and its Actual
\* Hours is lookup.get((e,'VARS'),0) + lookup.get((e,'Vitawerks'),0); a record
\* named 'VARS' or 'Vitawerks' only ever comes from a column of that label.
C2_CombinedColumn ==
    rpc = "returned" =>
      \A n \in Employees :
        LET combinedCells == {rc \in PositiveCells :
                                rc[2] = "Vars/Vita." /\ Kept.rows[rc[1]].Name = n}
            combinedRecs == {i \in 1..Len(Records) :
                                Records[i].Name = n /\ Records[i].Project = "VARS/Vitawerks"}
            memberRecs == {i \in 1..Len(Records) :
                                Records[i].Name = n /\ Records[i].Project \in {"VARS", "Vitawerks"}}
            memberCells == {rc \in PositiveCells :
                                rc[2] \in {"VARS", "Vitawerks"} /\ Kept.rows[rc[1]].Name = n}
        IN  /\ Cardinality(combinedRecs) = Cardinality(combinedCells)
            /\ \A i \in combinedRecs :
                  Records[i].Actual = lookup_get(LookupUsed, <<n, "VARS">>)
                                      + lookup_get(LookupUsed, <<n, "Vitawerks">>)
            /\ Cardinality(memberRecs) = Cardinality(memberCells)

\* the end-to-end case: Bob has 10 h under 'Vars/Vita.' and the lookup holds
\* 4 h of VARS and 3 h of Vitawerks for him: one record, 7 h, 70 %
C2_Witness ==
    /\ rpc = "returned"
    /\ lookup_get(LookupUsed, <<"Bob", "VARS">>) = 400
    /\ lookup_get(LookupUsed, <<"Bob", "Vitawerks">>) = 300
    /\ \E i \in 1..Len(Records) :
          Records[i] = [Name |-> "Bob", Project |-> "VARS/Vitawerks", Expected |-> 1000,
                        Actual |-> 700, Completion |-> 7000]

\* C3: every record of a non-combined column has Actual Hours =
\* lookup.get((employee, canonical project), 0) and Completion % =
\* min(round(actual / expected * 100, 2), 100): 100 when actual >= expected,
\* else the hundredth of a percent nearest to actual / expected * 100.
C3_PlainColumn ==
    rpc = "returned" =>
      \A i \in 1..Len(Records) :
        Records[i].Project # "VARS/Vitawerks" =>
          /\ Records[i].Actual = lookup_get(LookupUsed, <<Records[i].Name, Records[i].Project>>)
          /\ Records[i].Expected > 0
          /\ IF Records[i].Actual >= Records[i].Expected
             THEN Records[i].Completion = 100 * Units
             ELSE LET err == Records[i].Completion * Records[i].Expected
                             - Records[i].Actual * 100 * Units
                  IN  2 * err <= Records[i].Expected /\ -2 * err <= Records[i].Expected

\* the two cases of the claim in one report: expected 10, actual 15 gives 100
\* and expected 20, actual 15 gives 75.0
C3_Witness ==
    /\ rpc = "returned"
    /\ \E i \in 1..Len(Records) :
          Records[i] = [Name |-> "Alice", Project |-> "SDI", Expected |-> 1000,
                        Actual |-> 1500, Completion |-> 10000]
    /\ \E i \in 1..Len(Records) :
          Records[i] = [Name |-> "Alice", Project |-> "SDI", Expected |-> 2000,
                        Actual |-> 1500, Completion |-> 7500]

\* a cell of the kept table whose hours are zero, negative, missing or a text
SkippedCells ==
    {rc \in (1..Len(Kept.rows)) \X Range(Kept.columns) : rc \notin PositiveCells}

\* one record for every cell with positive hours, and no other record
OneRecordPerPositiveCell ==
    LET kept == Kept
        cells == PositiveCells
    IN  /\ Len(Records) = Cardinality(cells)
        /\ {<<Records[i].Name, Records[i].Project, Records[i].Expected>> : i \in 1..Len(Records)}
           = {<<kept.rows[rc[1]].Name, CanonicalOf(rc[2]), kept.rows[rc[1]].cells[rc[2]].v>>
                : rc \in cells}

UserDirectoryFailed == users_reply \in {"no_name", "raise"}

TicketingFailed ==
    tickets_reply \in {"empty", "no_time_spent", "no_teric_name", "raise"}

\* every cell with positive hours has its record, with no actual hours
AllZeroRecords ==
    /\ OneRecordPerPositiveCell
    /\ \A i \in 1..Len(Records) : Records[i].Actual = 0 /\ Records[i].Completion = 0

\* C7 as claimed: on any failure of the ticketing provider the lookup is
\* empty, a warning is surfaced, and the call completes with Actual Hours 0
\* and Completion % 0 for every cell with positive hours.
C7_AsClaimed ==
    TicketingFailed =>
        /\ LookupUsed = EmptyLookup
        /\ result.warning
        /\ rpc = "returned"
        /\ AllZeroRecords

\* C7, amended: on any failure of the ticketing provider the lookup is empty
\* and the call is not aborted by it: it returns a record with Actual Hours 0
\* and Completion % 0 for every cell with positive hours.  The warning is
\* surfaced exactly when an exception was caught (the provider raised, or a
\* grouping column is missing); an empty result and a missing time_spent
\* column give the empty lookup silently.
C7_TicketingFailure ==
    /\ TicketingFailed =>
          /\ LookupUsed = EmptyLookup
          /\ rpc = "returned"
          /\ AllZeroRecords
          /\ result.warning <=> tickets_reply \in {"raise", "no_teric_name"}
    /\ rpc = "raised" => tickets_reply = "uncalled" /\ ~result.warning

\* the provider raised, the warning was shown and two records were emitted
C7_Witness ==
    /\ rpc = "returned"
    /\ tickets_reply = "raise"
    /\ result.warning
    /\ Len(Records) >= 2
    /\ \A i \in 1..Len(Records) : Records[i].Actual = 0

\* C8: a failure of the user directory provider never blocks reconciliation:
\* the call returns the records it returns when the provider succeeds.
C8_UserDirectoryNeverBlocks ==
    (rpc # "input" /\ UserDirectoryFailed) =>
        /\ rpc = "returned"
        /\ \E treply \in TicketsReplies :
              Records = process_allocation_csv(df, sel.month, sel.year, "ok", treply).records

\* the (Name, Project) of each record, in order
RecordKeys == [i \in 1..Len(Records) |-> <<Records[i].Name, Records[i].Project>>]

\* the cells with positive hours, each with the name of its row and the
\* canonical project name of its column
CellKeys ==
    LET kept == Kept
    IN  {<<rc, <<kept.rows[rc[1]].Name, CanonicalOf(rc[2])>> >> : rc \in PositiveCells}

\* C9 as claimed: no two emitted records share the same (Name, Project).
C9_AsClaimed ==
    \A i, j \in 1..Len(Records) :
        (Records[i].Name = Records[j].Name /\ Records[i].Project = Records[j].Project)
            => i = j

\* C9, amended: there is one record per cell with positive hours, so the
\* records of an (employee name, canonical project name) pair are as many as
\* the cells of rows of that name under columns of that canonical name: one
\* when the names of the rows and the canonical names of the columns are
\* distinct, more when two rows share a name or two columns a canonical name
\* ('Nabis - Retainer' beside an unmapped 'Nabis').
C9_OneRecordPerCell ==
    rpc = "returned" =>
        LET rkeys == RecordKeys
            ckeys == CellKeys
        IN  \A key \in Range(rkeys) \cup {ck[2] : ck \in ckeys} :
                Cardinality({i \in 1..Len(rkeys) : rkeys[i] = key})
                = Cardinality({ck \in ckeys : ck[2] = key})

\* a report of four records of two employees, no two of the same pair
C9_Witness ==
    /\ rpc = "returned"
    /\ Len(Records) = 4
    /\ \A i, j \in 1..Len(Records) :
          (Records[i].Name = Records[j].Name /\ Records[i].Project = Records[j].Project)
              => i = j

(***************************************************************************)
(* Properties of the month helpers (under SpecMonth)                       *)
(***************************************************************************)
IsAbbreviation(m) == \E i \in 1..12 : m = SubSeq(FullMonths[i], 1, 3)

IsFullName(m) == \E i \in 1..12 : m = FullMonths[i]

\* m is neither an abbreviation nor, ignoring case, inside a full month name
\* or around one
NoMatch(m) ==
    /\ ~IsAbbreviation(m)
    /\ \A i \in 1..12 : ~StrIn(Lower(m), Lower(FullMonths[i]))
                        /\ ~StrIn(Lower(FullMonths[i]), Lower(m))

January == <<"J","a","n","u","a","r","y">>

\* C4 as claimed: standardize_month_name gives the full name for each
\* abbreviation, a full name unchanged, and "January" for an input with no
\* exact or substring match.
C4_AsClaimed ==
    mpc # "input" =>
        /\ \A i \in 1..12 :
              month_name = SubSeq(FullMonths[i], 1, 3) => standard_month = FullMonths[i]
        /\ IsFullName(month_name) => standard_month = month_name
        /\ NoMatch(month_name) => standard_month = January

\* C4, amended: standardize_month_name gives the full name for each of the
\* 12 abbreviations and returns every other input unchanged, a full name and
\* an unrecognized one ("Xyz") alike; the January default is get_month_number's,
\* which gives 1 for an input with no exact or substring match.
C4_Standardize ==
    /\ mpc # "input" =>
          /\ \A i \in 1..12 :
                month_name = SubSeq(FullMonths[i], 1, 3) => standard_month = FullMonths[i]
          /\ ~IsAbbreviation(month_name) => standard_month = month_name
    /\ (mpc \in {"numbered", "formatted"} /\ NoMatch(month_name)) => month_number = 1

\* "Xyz" went through both helpers: it came back unchanged and numbered 1
C4_Witness ==
    /\ mpc = "numbered"
    /\ month_name = <<"X","y","z">>
    /\ standard_month = <<"X","y","z">>
    /\ month_number = 1

\* C5: for every input string, the empty one included, get_month_number is
\* in 1..12 and the period string has a non-empty three-letter month.
C5_MonthNumberInRange ==
    /\ mpc \in {"numbered", "formatted"} => month_number \in 1..12
    /\ mpc = "formatted" => Len(month_str.abbr) = 3 /\ month_str.year = year

(***************************************************************************)
(* Properties of main (under SpecMain)                                     *)
(***************************************************************************)
\* C10: after any sequence of runs, the four keys are all present or all
\* absent, and when present allocation_df is what process_allocation_csv
\* returns for raw_df and the stored (selected_month, selected_year).
C10_SessionWhole ==
    /\ DOMAIN session_state \in {{}, SessionKeys}
    /\ DOMAIN session_state = SessionKeys =>
          \E treply \in TicketsReplies :
              LET res == process_allocation_csv(session_state["raw_df"],
                                                session_state["selected_month"],
                                                session_state["selected_year"],
                                                "ok", treply)
              IN  res.outcome = "returned" /\ res.records = session_state["allocation_df"]

\* a period change in which reconciliation raised: the exception left main
\* and the stored report is still there
C10_Witness ==
    /\ last_run.view = "exception"
    /\ DOMAIN session_state = SessionKeys
    /\ session_state["allocation_df"] # << >>

====
